---- MODULE Spec2Model ----
(***************************************************************************)
(* Model of openstb.i18n.support: the module globals _languages and        *)
(* _domain_translations, the catalog search _find_catalogs, the holder     *)
(* class _DomainTranslations and the two public functions set_languages    *)
(* and domain_translator.                                                  *)
(*                                                                         *)
(* Strings that the code parses (language tags, locale specifications,     *)
(* environment values) are sequences of one-character strings, so that     *)
(* str.split, str.find and the concatenations of gettext._expand_lang are  *)
(* computed rather than assumed.  Messages and translated texts, which the *)
(* code only passes around, are TLA+ strings.                              *)
(*                                                                         *)
(* Spec is the program called from one thread on an installation whose     *)
(* catalogs all load, SpecLoad the same on an installation with a corrupt  *)
(* catalog, and SpecThreads has lookups of a second thread fall between    *)
(* the loop iterations of a set_languages call.                            *)
(***************************************************************************)
EXTENDS Integers, Sequences, FiniteSets, TLC

VARIABLES
    _languages,            \* the module global: the languages currently in use
    _domain_translations,  \* the module global dict, in insertion order:
                           \* a sequence of [domain, obj], obj an index of heap
    heap,                  \* the _DomainTranslations objects ever stored
    issued,                \* the bound method the caller holds: {[self, method]}
    earlier,               \* history: the function held was obtained before
                           \* the latest set_languages call
    installed,             \* the catalog files of the installation
    ret,                   \* what the latest call of the API did and returned
    rebuild                \* a set_languages call that another thread is
                           \* inside of: where its loops stand

vars == <<_languages, _domain_translations, heap, issued, earlier, installed, ret, rebuild>>

(***************************************************************************)
(* Bounds of the model.                                                    *)
(***************************************************************************)
\* the longest argument list passed to set_languages(*languages)
MaxLangs == 2

(***************************************************************************)
(* Character strings.                                                      *)
(***************************************************************************)
tag_C == <<"C">>
tag_de == <<"d", "e">>
tag_en == <<"e", "n">>
tag_de_AT == <<"d", "e", "_", "A", "T">>
tag_de_AT_UTF8 == <<"d", "e", "_", "A", "T", ".", "U", "T", "F", "-", "8">>
tag_de_DE_ISO == <<"d", "e", "_", "D", "E", ".", "I", "S", "O", "8", "8", "5", "9", "-", "1">>
tag_en_US_ISO == <<"e", "n", "_", "U", "S", ".", "I", "S", "O", "8", "8", "5", "9", "-", "1">>

\* the language tags callers pass to set_languages in this model
Tags == {tag_C, tag_de, tag_en, tag_de_AT_UTF8}

\* str.find(ch): the first index of ch in s, 0 when absent (Python: -1)
Find(s, ch) ==
    IF \E i \in 1..Len(s) : s[i] = ch
    THEN CHOOSE i \in 1..Len(s) : s[i] = ch /\ \A j \in 1..(i - 1) : s[j] # ch
    ELSE 0

\* str.split(sep) for a one-character separator
RECURSIVE split(_, _)
split(s, sep) ==
    LET pos == Find(s, sep) IN
    IF pos = 0 THEN <<s>>
    ELSE <<SubSeq(s, 1, pos - 1)>> \o split(SubSeq(s, pos + 1, Len(s)), sep)

\* locale.normalize, as called by gettext._expand_lang: the entries of
\* locale.locale_alias that apply to the tags of this model; a name without
\* an alias is returned unchanged
normalize(loc) ==
    IF loc = tag_de THEN tag_de_DE_ISO
    ELSE IF loc = tag_en THEN tag_en_US_ISO
    ELSE loc

Bit(i, k) == (i \div (2 ^ k)) % 2

\* gettext._expand_lang: split the normalized locale into language,
\* territory, codeset and modifier and list every combination of the
\* components present, most specific first
_expand_lang(language0) ==
    LET loc0 == normalize(language0)
        pAt == Find(loc0, "@")
        modifier == IF pAt > 0 THEN SubSeq(loc0, pAt, Len(loc0)) ELSE <<>>
        loc1 == IF pAt > 0 THEN SubSeq(loc0, 1, pAt - 1) ELSE loc0
        pDot == Find(loc1, ".")
        codeset == IF pDot > 0 THEN SubSeq(loc1, pDot, Len(loc1)) ELSE <<>>
        loc2 == IF pDot > 0 THEN SubSeq(loc1, 1, pDot - 1) ELSE loc1
        pUs == Find(loc2, "_")
        territory == IF pUs > 0 THEN SubSeq(loc2, pUs, Len(loc2)) ELSE <<>>
        language == IF pUs > 0 THEN SubSeq(loc2, 1, pUs - 1) ELSE loc2
        mask == (IF pDot > 0 THEN 1 ELSE 0) + (IF pUs > 0 THEN 2 ELSE 0)
                + (IF pAt > 0 THEN 4 ELSE 0)
        val(i) == language
                  \o (IF Bit(i, 1) = 1 THEN territory ELSE <<>>)
                  \o (IF Bit(i, 0) = 1 THEN codeset ELSE <<>>)
                  \o (IF Bit(i, 2) = 1 THEN modifier ELSE <<>>)
        fits(i) == \A k \in 0..2 : Bit(i, k) <= Bit(mask, k)
        descending == [j \in 1..(mask + 1) |-> mask + 1 - j]
        kept == SelectSeq(descending, fits)
    IN [j \in 1..Len(kept) |-> val(kept[j])]

(***************************************************************************)
(* The installed package data: compiled catalogs under                     *)
(* openstb/locale/<spec>/LC_MESSAGES/<domain>.mo, possibly spread over     *)
(* several roots of the openstb.locale namespace package.                  *)
(***************************************************************************)
\* the roots of the namespace package, in the order importlib lists them
RootOrder == <<1, 2>>

D1 == "openstb.i18n_test"
D2 == "openstb.plugin"
Domains == {D1, D2}

\* a catalog file; valid: GNUTranslations can open and parse it
File(spec, root, domain) == [spec |-> spec, root |-> root, domain |-> domain, valid |-> TRUE]

\* German for both domains (for D1 in both roots), Austrian German for D1,
\* English for D2 only; no directory at all for the other specifications
SomeCatalogs ==
    { File(tag_de, 1, D1), File(tag_de, 2, D1), File(tag_de_AT, 1, D1),
      File(tag_de, 2, D2), File(tag_en, 2, D2) }

Installations == {SomeCatalogs}

\* a file that is there but that GNUTranslations cannot parse
Corrupt(spec, root, domain) == [File(spec, root, domain) EXCEPT !.valid = FALSE]

\* the same files, the German catalog of D1 in the first root corrupt
DamagedCatalogs ==
    (SomeCatalogs \ {File(tag_de, 1, D1)}) \cup {Corrupt(tag_de, 1, D1)}

DamagedInstallations == {DamagedCatalogs}

msg_simple == "A simple test message"
msg_plugin == "{count:d} plugin was found"
msg_plugins == "{count:d} plugins were found"
msg_open == "Open"
Messages == {msg_simple, msg_plugin, msg_open}
Contexts == {"menu", "toolbar"}
Counts == {1, 10}

\* GNUTranslations.CONTEXT % (context, message): the msgid of a message in a
\* context; a message without context is its own msgid
CONTEXT(context, message) == <<context, message>>
Plain(message) == <<message>>

\* a key of GNUTranslations._catalog: msgid alone (form -1) or (msgid, form)
Key(msgid, form) == [msgid |-> msgid, form |-> form]

\* the keys of the catalog compiled into a file
_catalog(f) ==
    IF f.domain = D1 /\ f.spec = tag_de /\ f.root = 1 THEN
        { Key(Plain(msg_simple), -1), Key(Plain(msg_plugin), 0), Key(Plain(msg_plugin), 1),
          Key(Plain(msg_open), -1), Key(CONTEXT("menu", msg_open), -1),
          Key(CONTEXT("menu", msg_plugin), 0), Key(CONTEXT("menu", msg_plugin), 1) }
    ELSE IF f.domain = D1 /\ f.spec = tag_de_AT THEN
        { Key(Plain(msg_simple), -1), Key(CONTEXT("toolbar", msg_open), -1) }
    ELSE IF f.domain = D2 /\ f.spec = tag_en THEN
        { Key(Plain(msg_plugin), 0), Key(Plain(msg_plugin), 1), Key(Plain(msg_open), -1) }
    ELSE IF f.spec = tag_de THEN
        { Key(Plain(msg_simple), -1), Key(Plain(msg_plugin), 0), Key(Plain(msg_plugin), 1) }
    ELSE {}

RECURSIVE Str(_)
Str(s) == IF s = <<>> THEN "" ELSE Head(s) \o Str(Tail(s))

\* the translated text a catalog file holds under a key
tmsg(f, key) ==
    Str(f.spec) \o "/" \o ToString(f.root) \o ":"
    \o (IF Len(key.msgid) = 2 THEN key.msgid[1] \o "|" ELSE "")
    \o key.msgid[Len(key.msgid)]
    \o (IF key.form >= 0 THEN "#" \o ToString(key.form) ELSE "")

\* GNUTranslations.plural, from the header "Plural-Forms: nplurals=2;
\* plural=(n != 1)" of the catalogs above
plural(f, n) == IF n # 1 THEN 1 ELSE 0

(***************************************************************************)
(* _find_catalogs                                                          *)
(***************************************************************************)
None == [spec |-> <<>>, root |-> 0, domain |-> "", valid |-> TRUE]

\* resources.files("openstb.locale.<spec>.LC_MESSAGES"): the roots that hold
\* the directory; empty when the package cannot be imported
lc_messages(spec, fs) ==
    SelectSeq(RootOrder, LAMBDA r : \E f \in fs : f.spec = spec /\ f.root = r)

\* a joinpath that looks under the first root only
joinpath_first(lc, spec, domain, fs) ==
    IF \E f \in fs : f.spec = spec /\ f.root = lc[1] /\ f.domain = domain
    THEN CHOOSE f \in fs : f.spec = spec /\ f.root = lc[1] /\ f.domain = domain
    ELSE [spec |-> spec, root |-> lc[1], domain |-> domain, valid |-> FALSE]

\* MultiplexedPath.joinpath(mo_fn): the first existing file, else the name
\* under the first root
joinpath(lc, spec, domain, fs) ==
    LET exists(r) == \E f \in fs : f.spec = spec /\ f.root = r /\ f.domain = domain
        hits == SelectSeq(lc, exists)
        root == IF hits # <<>> THEN hits[1] ELSE lc[1]
    IN IF \E f \in fs : f.spec = spec /\ f.root = root /\ f.domain = domain
       THEN CHOOSE f \in fs : f.spec = spec /\ f.root = root /\ f.domain = domain
       ELSE [spec |-> spec, root |-> root, domain |-> domain, valid |-> FALSE]

is_file(catalog, fs) == catalog \in fs

\* an inner loop without the is_file() check
Probe_unchecked(spec, domain, fs) ==
    LET lc == lc_messages(spec, fs) IN
    IF lc = <<>> THEN <<>> ELSE <<joinpath(lc, spec, domain, fs)>>

\* the body of the inner loop for one locale specification: what it appends
Probe(spec, domain, fs) ==
    LET lc == lc_messages(spec, fs) IN
    IF lc = <<>> THEN <<>>
    ELSE LET catalog == joinpath(lc, spec, domain, fs) IN
         IF is_file(catalog, fs) THEN <<catalog>> ELSE <<>>

\* an inner loop that is left at the first catalog found
RECURSIVE SpecLoop_first(_, _, _, _)
SpecLoop_first(specs, k, domain, fs) ==
    IF k > Len(specs) THEN <<>>
    ELSE IF specs[k] = tag_C THEN <<None>>
    ELSE IF Probe(specs[k], domain, fs) # <<>> THEN Probe(specs[k], domain, fs)
    ELSE SpecLoop_first(specs, k + 1, domain, fs)

\* an inner loop that is left at the first specification without a catalog
RECURSIVE SpecLoop_break(_, _, _, _)
SpecLoop_break(specs, k, domain, fs) ==
    IF k > Len(specs) THEN <<>>
    ELSE IF specs[k] = tag_C THEN <<None>>
    ELSE IF Probe(specs[k], domain, fs) = <<>> THEN <<>>
    ELSE Probe(specs[k], domain, fs) \o SpecLoop_break(specs, k + 1, domain, fs)

\* for spec in _expand_lang(language): "C" appends None and leaves this loop
RECURSIVE SpecLoop(_, _, _, _)
SpecLoop(specs, k, domain, fs) ==
    IF k > Len(specs) THEN <<>>
    ELSE IF specs[k] = tag_C THEN <<None>>
    ELSE Probe(specs[k], domain, fs) \o SpecLoop(specs, k + 1, domain, fs)

\* an outer loop that takes the languages from the last to the first
RECURSIVE LanguageLoop_reversed(_, _, _, _)
LanguageLoop_reversed(languages, i, domain, fs) ==
    IF i > Len(languages) THEN <<>>
    ELSE LanguageLoop_reversed(languages, i + 1, domain, fs)
         \o SpecLoop(_expand_lang(languages[i]), 1, domain, fs)

\* for language in languages
RECURSIVE LanguageLoop(_, _, _, _)
LanguageLoop(languages, i, domain, fs) ==
    IF i > Len(languages) THEN <<>>
    ELSE SpecLoop(_expand_lang(languages[i]), 1, domain, fs)
         \o LanguageLoop(languages, i + 1, domain, fs)

_find_catalogs(languages, domain, fs) == LanguageLoop(languages, 1, domain, fs)

(***************************************************************************)
(* set_languages: the new value of _languages                             *)
(***************************************************************************)
EnvNames == <<"LANGUAGE", "LC_ALL", "LC_MESSAGES", "LANG">>

\* the values an environment variable has in this model, when it is set
EnvValues(name) ==
    IF name = "LANGUAGE" THEN {<<>>, tag_de \o <<":">> \o tag_en}
    ELSE IF name = "LC_ALL" THEN {<<>>, tag_de_AT_UTF8}
    ELSE IF name = "LC_MESSAGES" THEN {<<>>, tag_C \o <<":">> \o tag_de}
    ELSE {<<>>, tag_en}

\* os.environ: a function from the names that are set to their values; in
\* this model at most two of the four variables are set at a time
Environs ==
    UNION { { e \in [S -> UNION {EnvValues(EnvNames[i]) : i \in 1..Len(EnvNames)}] :
                \A name \in S : e[name] \in EnvValues(name) } :
            S \in {T \in SUBSET {EnvNames[i] : i \in 1..Len(EnvNames)} : Cardinality(T) <= 2} }

\* a loop that takes the first variable that is set, empty or not
FromEnviron_set(environ) ==
    LET present(name) == name \in DOMAIN environ
        hits == SelectSeq(EnvNames, present)
    IN IF hits = <<>> THEN <<>> ELSE split(environ[hits[1]], ":")

\* the loop over the environment variables, after _languages.clear(): the
\* first variable whose value is truthy is split on ":"; none leaves []
FromEnviron(environ) ==
    LET truthy(name) == name \in DOMAIN environ /\ environ[name] # <<>>
        hits == SelectSeq(EnvNames, truthy)
    IN IF hits = <<>> THEN <<>> ELSE split(environ[hits[1]], ":")

In(x, seq) == \E i \in 1..Len(seq) : seq[i] = x

\* a set_languages that does not append "C"
NewLanguages_bare(languages, environ) ==
    IF languages # <<>> THEN languages ELSE FromEnviron(environ)

\* the new value of _languages: the arguments or the environment, with "C"
\* appended when it is not among them
NewLanguages(languages, environ) ==
    LET chosen == IF languages # <<>> THEN languages ELSE FromEnviron(environ)
    IN IF In(tag_C, chosen) THEN chosen ELSE Append(chosen, tag_C)

\* the argument lists of set_languages in this model; <<>> is set_languages()
LanguageLists == UNION {[1..n -> Tags] : n \in 0..MaxLangs}

\* every value _languages takes in this model
Preferences ==
    {<<tag_C>>} \cup {NewLanguages(languages, <<>>) : languages \in LanguageLists \ {<<>>}}
    \cup {NewLanguages(<<>>, environ) : environ \in Environs}

\* gettext._expand_lang depends on its argument only: its results for the
\* tags of the preferences of this model
Expanded ==
    [tag \in UNION {{languages[i] : i \in 1..Len(languages)} : languages \in Preferences} |->
        _expand_lang(tag)]

\* _find_catalogs reads its arguments and the installed files only: its
\* results for the preferences, domains and installations of this model
Found ==
    [fs \in Installations \cup DamagedInstallations |->
        [domain \in Domains |-> [languages \in Preferences |->
        _find_catalogs(languages, domain, fs)]]]

(***************************************************************************)
(* gettext.NullTranslations and gettext.GNUTranslations.  A translation    *)
(* object and the objects reachable through _fallback are a sequence: the  *)
(* object itself first, its _fallback second, and so on.                   *)
(***************************************************************************)
NullTranslations == [class |-> "NullTranslations", catalog |-> None]
GNUTranslations(catalog) == [class |-> "GNUTranslations", catalog |-> catalog]

\* an add_fallback that puts the new object in front of the others
add_fallback_front(translations, fallback) == <<fallback>> \o translations

\* NullTranslations.add_fallback: hand the new object down to the end
add_fallback(translations, fallback) == Append(translations, fallback)

Has(o, msgid, form) ==
    o.class = "GNUTranslations" /\ Key(msgid, form) \in _catalog(o.catalog)

\* gettext / pgettext of the object at position i: GNUTranslations looks up
\* msgid, then (msgid, plural(1)); an object without the message asks its
\* _fallback, and answers with the message itself when it has none
RECURSIVE Singular(_, _, _, _)
Singular(t, i, msgid, message) ==
    IF Has(t[i], msgid, -1) THEN tmsg(t[i].catalog, Key(msgid, -1))
    ELSE IF Has(t[i], msgid, plural(t[i].catalog, 1))
    THEN tmsg(t[i].catalog, Key(msgid, plural(t[i].catalog, 1)))
    ELSE IF i < Len(t) THEN Singular(t, i + 1, msgid, message)
    ELSE message

\* ngettext / npgettext of the object at position i
RECURSIVE Plural(_, _, _, _, _, _)
Plural(t, i, msgid, msgid1, msgid2, n) ==
    IF Has(t[i], msgid, plural(t[i].catalog, n))
    THEN tmsg(t[i].catalog, Key(msgid, plural(t[i].catalog, n)))
    ELSE IF i < Len(t) THEN Plural(t, i + 1, msgid, msgid1, msgid2, n)
    ELSE IF n = 1 THEN msgid1 ELSE msgid2

(***************************************************************************)
(* class _DomainTranslations                                               *)
(***************************************************************************)
\* the attribute self.translations before its first assignment
Unset == <<>>
AttributeError == "AttributeError"

\* a loop that passes over a catalog it cannot load
RECURSIVE LoadLoop_skip(_, _, _, _)
LoadLoop_skip(catalogs, k, translations, is_base) ==
    IF k > Len(catalogs) THEN [translations |-> translations, raised |-> FALSE]
    ELSE IF catalogs[k] # None /\ ~catalogs[k].valid
    THEN LoadLoop_skip(catalogs, k + 1, translations, is_base)
    ELSE LET translation == IF catalogs[k] = None THEN NullTranslations
                            ELSE GNUTranslations(catalogs[k])
         IN LoadLoop_skip(catalogs, k + 1,
                          IF is_base THEN <<translation>>
                          ELSE add_fallback(translations, translation),
                          FALSE)

\* the loop of _DomainTranslations.set_languages over the catalog paths:
\* the first catalog replaces self.translations, the others are added as
\* fallbacks; a catalog that cannot be read or parsed raises out of the loop
RECURSIVE LoadLoop(_, _, _, _)
LoadLoop(catalogs, k, translations, is_base) ==
    IF k > Len(catalogs) THEN [translations |-> translations, raised |-> FALSE]
    ELSE IF catalogs[k] # None /\ ~catalogs[k].valid
    THEN [translations |-> translations, raised |-> TRUE]
    ELSE LET translation == IF catalogs[k] = None THEN NullTranslations
                            ELSE GNUTranslations(catalogs[k])
         IN LoadLoop(catalogs, k + 1,
                     IF is_base THEN <<translation>>
                     ELSE add_fallback(translations, translation),
                     FALSE)

\* a set_languages whose is_base starts False once translations exists
DomainSetLanguages_keep(translations, languages, domain, fs) ==
    LoadLoop(Found[fs][domain][languages], 1, translations, translations = Unset)

\* _DomainTranslations.set_languages: the new value of self.translations
DomainSetLanguages(translations, languages, domain, fs) ==
    LoadLoop(Found[fs][domain][languages], 1, translations, TRUE)

\* a constructor that swallows the exception of a failed load
NewDomainTranslations_quiet(domain, languages, fs) ==
    LET built == DomainSetLanguages(Unset, languages, domain, fs) IN
    [object |-> [domain |-> domain, translations |-> built.translations],
     raised |-> FALSE]

\* _DomainTranslations(domain): __init__ stores the domain and builds the chain
NewDomainTranslations(domain, languages, fs) ==
    LET built == DomainSetLanguages(Unset, languages, domain, fs) IN
    [object |-> [domain |-> domain, translations |-> built.translations],
     raised |-> built.raised]

gettext(self, message) ==
    IF self.translations = Unset THEN AttributeError
    ELSE Singular(self.translations, 1, Plain(message), message)

\* an ngettext that passes the two forms in the wrong order
ngettext_swapped(self, singular, plural_, n) ==
    IF self.translations = Unset THEN AttributeError
    ELSE Plural(self.translations, 1, Plain(plural_), plural_, singular, n)

ngettext(self, singular, plural_, n) ==
    IF self.translations = Unset THEN AttributeError
    ELSE Plural(self.translations, 1, Plain(singular), singular, plural_, n)

\* a pgettext that asks for the message without its context when the
\* chain has nothing for the context
pgettext_plain(self, context, message) ==
    IF self.translations = Unset THEN AttributeError
    ELSE IF Singular(self.translations, 1, CONTEXT(context, message), message) = message
    THEN Singular(self.translations, 1, Plain(message), message)
    ELSE Singular(self.translations, 1, CONTEXT(context, message), message)

pgettext(self, context, message) ==
    IF self.translations = Unset THEN AttributeError
    ELSE Singular(self.translations, 1, CONTEXT(context, message), message)

npgettext(self, context, singular, plural_, n) ==
    IF self.translations = Unset THEN AttributeError
    ELSE Plural(self.translations, 1, CONTEXT(context, singular), singular, plural_, n)

Methods == {"gettext", "ngettext", "pgettext", "npgettext"}

\* the arguments callers pass to a translator function in this model
Args(method) ==
    IF method = "gettext" THEN [message : Messages]
    ELSE IF method = "ngettext" THEN [singular : {msg_plugin, msg_simple}, plural : {msg_plugins}, n : Counts]
    ELSE IF method = "pgettext" THEN [context : Contexts, message : {msg_open, msg_simple}]
    ELSE [context : Contexts, singular : {msg_plugin}, plural : {msg_plugins}, n : Counts]

\* calling a bound method of a _DomainTranslations object
Invoke(self, method, args) ==
    IF method = "gettext" THEN gettext(self, args.message)
    ELSE IF method = "ngettext" THEN ngettext(self, args.singular, args.plural, args.n)
    ELSE IF method = "pgettext" THEN pgettext(self, args.context, args.message)
    ELSE npgettext(self, args.context, args.singular, args.plural, args.n)

(***************************************************************************)
(* set_languages                                                           *)
(***************************************************************************)
\* a set_languages that stores new objects in the dict instead of updating
\* the ones callers hold
RECURSIVE UpdateAll_fresh(_, _, _, _, _)
UpdateAll_fresh(registry, hp, k, languages, fs) ==
    IF k > Len(registry) THEN [registry |-> registry, heap |-> hp, raised |-> FALSE]
    ELSE LET created == NewDomainTranslations(registry[k].domain, languages, fs)
             hp1 == Append(hp, created.object)
         IN IF created.raised THEN [registry |-> registry, heap |-> hp, raised |-> TRUE]
            ELSE UpdateAll_fresh([registry EXCEPT ![k].obj = Len(hp1)], hp1, k + 1,
                                 languages, fs)

\* for translation in _domain_translations.values(): translation.set_languages()
\* from entry k on; an exception leaves the remaining objects as they were
RECURSIVE UpdateAll(_, _, _, _, _)
UpdateAll(registry, hp, k, languages, fs) ==
    IF k > Len(registry) THEN [registry |-> registry, heap |-> hp, raised |-> FALSE]
    ELSE LET obj == registry[k].obj
             built == DomainSetLanguages(hp[obj].translations, languages, hp[obj].domain, fs)
             hp1 == [hp EXCEPT ![obj].translations = built.translations]
         IN IF built.raised THEN [registry |-> registry, heap |-> hp1, raised |-> TRUE]
            ELSE UpdateAll(registry, hp1, k + 1, languages, fs)

set_languages(languages, environ) ==
    LET new == NewLanguages(languages, environ)
        done == UpdateAll(_domain_translations, heap, 1, new, installed)
    IN /\ _languages' = new
       /\ _domain_translations' = done.registry
       /\ heap' = done.heap
       /\ ret' = [op |-> "set_languages", languages |-> languages,
                  environ |-> IF languages = <<>> THEN environ ELSE <<>>,
                  raised |-> done.raised]
       /\ earlier' = (issued # {})
       /\ UNCHANGED <<issued, installed, rebuild>>

(***************************************************************************)
(* domain_translator                                                       *)
(***************************************************************************)
\* a membership test that never finds the domain
Registered_never(registry, domain) == FALSE

\* domain in _domain_translations
Registered(registry, domain) == \E k \in 1..Len(registry) : registry[k].domain = domain

\* _domain_translations[domain]
Lookup(registry, domain) ==
    registry[CHOOSE k \in 1..Len(registry) : registry[k].domain = domain].obj

MethodName(plural_, context) ==
    IF context THEN (IF plural_ THEN "npgettext" ELSE "pgettext")
    ELSE (IF plural_ THEN "ngettext" ELSE "gettext")

domain_translator(domain, plural_, context) ==
    LET created == NewDomainTranslations(domain, _languages, installed)
        fresh == ~Registered(_domain_translations, domain)
    IN IF fresh /\ created.raised
       THEN /\ ret' = [op |-> "domain_translator", domain |-> domain, raised |-> TRUE]
            /\ UNCHANGED <<_languages, _domain_translations, heap, issued, earlier, installed, rebuild>>
       ELSE LET hp == IF fresh THEN Append(heap, created.object) ELSE heap
                registry == IF fresh
                            THEN Append(_domain_translations,
                                        [domain |-> domain, obj |-> Len(hp)])
                            ELSE _domain_translations
                f == [self |-> Lookup(registry, domain),
                      method |-> MethodName(plural_, context)]
            IN /\ heap' = hp
               /\ _domain_translations' = registry
               /\ issued' = {f}
               /\ earlier' = FALSE
               /\ ret' = [op |-> "domain_translator", domain |-> domain,
                          raised |-> FALSE, value |-> f]
               /\ UNCHANGED <<_languages, installed, rebuild>>

(***************************************************************************)
(* The caller calls the translator function it holds (the tests keep the   *)
(* latest one: _ = domain_translator(...)).                                *)
(***************************************************************************)
Call(f, args) ==
    /\ ret' = [op |-> "call", fn |-> f, args |-> args,
               value |-> Invoke(heap[f.self], f.method, args)]
    /\ UNCHANGED <<_languages, _domain_translations, heap, issued, earlier, installed, rebuild>>

(***************************************************************************)
(* Specification                                                           *)
(***************************************************************************)
\* no set_languages call is in progress
Idle == [running |-> FALSE, languages |-> <<>>, k |-> 0, j |-> 0, before |-> <<>>]

Init ==
    /\ _languages = <<tag_C>>
    /\ _domain_translations = <<>>
    /\ heap = <<>>
    /\ issued = {}
    /\ earlier = FALSE
    /\ installed \in Installations
    /\ ret = [op |-> "import"]
    /\ rebuild = Idle

Next ==
    \/ \E languages \in LanguageLists :
           IF languages = <<>> THEN \E environ \in Environs : set_languages(languages, environ)
           ELSE set_languages(languages, <<>>)
    \/ \E domain \in Domains, plural_, context \in BOOLEAN :
           domain_translator(domain, plural_, context)
    \/ \E f \in issued : \E args \in Args(f.method) : Call(f, args)

Spec == Init /\ [][Next]_vars

(***************************************************************************)
(* Threads: one thread is inside set_languages while another calls the     *)
(* translator function it holds.  A step of the first thread is one        *)
(* iteration of the loop of _DomainTranslations.set_languages; the calls   *)
(* of the other thread fall between these steps.                           *)
(***************************************************************************)
\* set_languages(*languages) as far as its last loop: _languages is assigned
set_languages_enter(languages) ==
    /\ ~rebuild.running
    /\ _languages' = NewLanguages(languages, <<>>)
    /\ earlier' = (issued # {})
    /\ IF _domain_translations = <<>>
       THEN /\ rebuild' = Idle
            /\ ret' = [op |-> "set_languages", languages |-> languages,
                       environ |-> <<>>, raised |-> FALSE]
       ELSE /\ rebuild' = [running |-> TRUE, languages |-> languages,
                           k |-> 1, j |-> 1, before |-> heap]
            /\ ret' = ret
    /\ UNCHANGED <<_domain_translations, heap, issued, installed>>

\* one iteration of the loop of _DomainTranslations.set_languages, for the
\* object the loop of set_languages stands at: catalog j is loaded and
\* assigned to self.translations or added to it as a fallback
set_languages_step ==
    /\ rebuild.running
    /\ LET obj == _domain_translations[rebuild.k].obj
           catalogs == Found[installed][heap[obj].domain][_languages]
           one == LoadLoop(<<catalogs[rebuild.j]>>, 1, heap[obj].translations,
                           rebuild.j = 1)
           last == rebuild.j = Len(catalogs)
           done == one.raised \/ (last /\ rebuild.k = Len(_domain_translations))
       IN /\ heap' = [heap EXCEPT ![obj].translations = one.translations]
          /\ rebuild' = IF done THEN Idle
                        ELSE IF last THEN [rebuild EXCEPT !.k = @ + 1, !.j = 1]
                        ELSE [rebuild EXCEPT !.j = @ + 1]
          /\ ret' = IF done
                    THEN [op |-> "set_languages", languages |-> rebuild.languages,
                          environ |-> <<>>, raised |-> one.raised]
                    ELSE ret
    /\ UNCHANGED <<_languages, _domain_translations, issued, earlier, installed>>

\* the other thread: lookups at any time; domain_translator while no
\* set_languages call iterates over the dict
NextThreads ==
    \/ \E languages \in LanguageLists \ {<<>>} : set_languages_enter(languages)
    \/ set_languages_step
    \/ \E domain \in Domains, plural_, context \in BOOLEAN :
           ~rebuild.running /\ domain_translator(domain, plural_, context)
    \/ \E f \in issued : \E args \in Args(f.method) : Call(f, args)

SpecThreads == Init /\ [][NextThreads]_vars

(***************************************************************************)
(* The same program on an installation with a corrupt catalog file.        *)
(***************************************************************************)
InitLoad ==
    /\ _languages = <<tag_C>>
    /\ _domain_translations = <<>>
    /\ heap = <<>>
    /\ issued = {}
    /\ earlier = FALSE
    /\ installed \in DamagedInstallations
    /\ ret = [op |-> "import"]
    /\ rebuild = Idle

\* the tags passed to set_languages on this installation: one whose list for
\* D1 has the corrupt file behind a good one, one whose lists have none
LoadTags == {tag_de_AT_UTF8, tag_en}

LoadLists ==
    {languages \in LanguageLists \ {<<>>} :
        \A i \in 1..Len(languages) : languages[i] \in LoadTags}

NextLoad ==
    \/ \E languages \in LoadLists : set_languages(languages, <<>>)
    \/ \E domain \in Domains, plural_, context \in BOOLEAN :
           domain_translator(domain, plural_, context)
    \/ \E f \in issued : \E args \in Args(f.method) : Call(f, args)

SpecLoad == InitLoad /\ [][NextLoad]_vars

(***************************************************************************)
(* Properties                                                              *)
(***************************************************************************)
\* the _DomainTranslations object a bound method belongs to
Holder(f) == heap[f.self]

\* a _DomainTranslations object built now, from nothing, for a domain
Scratch(domain) == NewDomainTranslations(domain, _languages, installed).object

IsCall(method) == ret.op = "call" /\ ret.fn.method = method

\* some catalog of the domain is installed, in some root, for some variant
\* of some language of the preference
CatalogInstalled(languages, domain) ==
    \E i \in 1..Len(languages) :
        \E v \in 1..Len(_expand_lang(languages[i])) :
            \E f \in installed :
                f.domain = domain /\ f.spec = _expand_lang(languages[i])[v]

german == File(tag_de, 1, D1)
austrian == File(tag_de_AT, 1, D1)

\* C1: a translator function obtained before a set_languages call is bound to
\* the domain's holder, not to a snapshot: whenever the caller calls a
\* function it obtained before the latest set_languages call, the result is
\* what a chain built from scratch from the languages then set gives.
C1_LiveBinding ==
    (ret.op = "call" /\ earlier) =>
        /\ ret.fn \in issued
        /\ ret.value = Invoke(Scratch(Holder(ret.fn).domain), ret.fn.method, ret.args)

\* a function obtained before set_languages("de"...) returns the German text
C1_Witness ==
    /\ IsCall("gettext") /\ earlier
    /\ _languages[1] = tag_de
    /\ ret.args.message = msg_simple
    /\ ret.value = tmsg(german, Key(Plain(msg_simple), -1))

C3_SentinelIsLast ==
    \A domain \in Domains :
        LET catalogs == _find_catalogs(_languages, domain, installed) IN
        \A i \in 1..Len(catalogs) : catalogs[i] = None => i = Len(catalogs)

\* the entries of the preference that _find_catalogs consults: its outer loop
\* has no exit, so it consults them all
Consulted(languages) == languages

\* C4: the preference contains "C" exactly once, and "C" is the last entry
\* consulted when a chain is built.
C4_UniversalTagOnceAndLast ==
    /\ Cardinality({i \in 1..Len(_languages) : _languages[i] = tag_C}) = 1
    /\ Consulted(_languages)[Len(Consulted(_languages))] = tag_C

\* C5: the identity catalog answers every lookup wherever it stands: a lookup
\* on a chain whose entry i is the identity catalog returns what the chain
\* cut after entry i returns, never a text of a later entry.
C5_IdentityAnswers ==
    ret.op = "call" =>
        LET chain == Holder(ret.fn).translations IN
        \A i \in 1..Len(chain) :
            chain[i] = NullTranslations =>
                ret.value = Invoke([domain |-> Holder(ret.fn).domain,
                                    translations |-> SubSeq(chain, 1, i)],
                                   ret.fn.method, ret.args)

\* the catalog file _find_catalogs sees for a specification: the one in
\* the first root that has it
Visible(spec, domain) ==
    {f \in installed : /\ f.spec = spec /\ f.domain = domain
                       /\ \A g \in installed :
                              (g.spec = spec /\ g.domain = domain) => f.root <= g.root}

\* the places of a preference: entry i, variant v of its expansion
Places(languages) ==
    {p \in (1..Len(languages)) \X (1..4) : p[2] <= Len(_expand_lang(languages[p[1]]))}

Before(p, q) == p[1] < q[1] \/ (p[1] = q[1] /\ p[2] < q[2])

Maps(f, message) ==
    \/ Key(Plain(message), -1) \in _catalog(f)
    \/ Key(Plain(message), plural(f, 1)) \in _catalog(f)

TextOf(f, message) ==
    IF Key(Plain(message), -1) \in _catalog(f) THEN tmsg(f, Key(Plain(message), -1))
    ELSE tmsg(f, Key(Plain(message), plural(f, 1)))

\* the places of the preference whose catalog has a mapping for the message
Answering(languages, domain, message) ==
    {p \in Places(languages) :
        \E f \in Visible(_expand_lang(languages[p[1]])[p[2]], domain) : Maps(f, message)}

\* C6: a lookup walks the chain in preference order: the result is the
\* translation held by the earliest place of the preference whose catalog has
\* a mapping for the message, and the message itself if no catalog has one.
C6_FirstMappingInPreferenceOrder ==
    IsCall("gettext") =>
        LET domain == Holder(ret.fn).domain
            message == ret.args.message
            answering == Answering(_languages, domain, message)
        IN IF answering = {} THEN ret.value = message
           ELSE \E p \in answering :
                    /\ \A q \in answering : q = p \/ Before(p, q)
                    /\ \E f \in Visible(_expand_lang(_languages[p[1]])[p[2]], domain) :
                           ret.value = TextOf(f, message)

\* the Austrian catalog is primary and lacks "Open": the German one answers
C6_Witness ==
    /\ IsCall("gettext")
    /\ Len(Holder(ret.fn).translations) = 3
    /\ Holder(ret.fn).translations[1] = GNUTranslations(austrian)
    /\ ret.args.message = msg_open
    /\ ret.value = tmsg(german, Key(Plain(msg_open), -1))

\* C7: identity property: when no catalog of the domain is installed for any
\* variant of any language of the preference, lookup(m) = m, in the initial
\* state and after any sequence of set_languages calls.
C7_Identity ==
    (IsCall("gettext") /\ ~CatalogInstalled(_languages, Holder(ret.fn).domain)) =>
        ret.value = ret.args.message

\* a function obtained earlier is called after the preference was set to
\* languages for which the domain has no catalog
C7_Witness ==
    /\ IsCall("gettext") /\ earlier
    /\ _languages = <<tag_en, tag_C>>
    /\ Holder(ret.fn).domain = D1
    /\ ~CatalogInstalled(_languages, D1)
    /\ ret.value = msg_simple

\* the plural rule of a catalog selects form 0 for n = 1 and form 1 otherwise
SingularPluralRule(f) ==
    plural(f, 1) = 0 /\ \A n \in Counts \ {1} : plural(f, n) = 1

\* C8: plural selection: without a catalog for the active languages
\* lookup_plural(s, p, n) is s for n = 1 and p otherwise; when the primary
\* catalog has the forms of s under the rule "n = 1 singular, else plural" it
\* is that catalog's singular form for n = 1 and its plural form otherwise.
C8_PluralSelection ==
    IsCall("ngettext") =>
        LET self == Holder(ret.fn)
            s == ret.args.singular
            n == ret.args.n
            primary == self.translations[1]
        IN /\ ~CatalogInstalled(_languages, self.domain) =>
                  ret.value = IF n = 1 THEN s ELSE ret.args.plural
           /\ ( /\ primary.class = "GNUTranslations"
                /\ SingularPluralRule(primary.catalog)
                /\ {Key(Plain(s), 0), Key(Plain(s), 1)} \subseteq _catalog(primary.catalog) ) =>
                  ret.value = IF n = 1 THEN tmsg(primary.catalog, Key(Plain(s), 0))
                              ELSE tmsg(primary.catalog, Key(Plain(s), 1))

\* the German plural form for n = 10, from a function obtained earlier
C8_Witness ==
    /\ IsCall("ngettext") /\ earlier
    /\ ret.args.n = 10
    /\ ret.args.singular = msg_plugin
    /\ Holder(ret.fn).translations[1] = GNUTranslations(german)
    /\ ret.value = tmsg(german, Key(Plain(msg_plugin), 1))

RECURSIVE Join(_, _)
Join(parts, sep) ==
    IF Len(parts) = 1 THEN parts[1]
    ELSE parts[1] \o <<sep>> \o Join(Tail(parts), sep)

NonEmpty(environ, name) == name \in DOMAIN environ /\ Len(environ[name]) > 0

\* the value of the first variable, in the order LANGUAGE, LC_ALL,
\* LC_MESSAGES, LANG, that is set and not empty; <<>> when there is none
FirstSetting(environ) ==
    IF NonEmpty(environ, "LANGUAGE") THEN environ["LANGUAGE"]
    ELSE IF NonEmpty(environ, "LC_ALL") THEN environ["LC_ALL"]
    ELSE IF NonEmpty(environ, "LC_MESSAGES") THEN environ["LC_MESSAGES"]
    ELSE IF NonEmpty(environ, "LANG") THEN environ["LANG"]
    ELSE <<>>

\* C9: set_languages() takes the first of LANGUAGE, LC_ALL, LC_MESSAGES, LANG
\* that is set and not empty and splits it on ":" into the tag list (the
\* preference is that list, with "C" after it when the list lacks "C"); when
\* none is set and not empty the preference is just <<"C">>.
C9_EnvironmentDefaults ==
    (ret.op = "set_languages" /\ ret.languages = <<>>) =>
        LET value == FirstSetting(ret.environ) IN
        IF value = <<>> THEN _languages = <<tag_C>>
        ELSE \E n \in 1..Len(_languages) :
                 LET tags == SubSeq(_languages, 1, n) IN
                 /\ Join(tags, ":") = value
                 /\ \A i \in 1..n : Find(tags[i], ":") = 0
                 /\ IF In(tag_C, tags) THEN n = Len(_languages)
                    ELSE n + 1 = Len(_languages) /\ _languages[n + 1] = tag_C

\* LANGUAGE is set to the empty string and LC_MESSAGES to "C:de"
C9_Witness ==
    /\ ret.op = "set_languages" /\ ret.languages = <<>>
    /\ DOMAIN ret.environ = {"LANGUAGE", "LC_MESSAGES"}
    /\ ret.environ["LANGUAGE"] = <<>>
    /\ _languages = <<tag_C, tag_de>>

\* C10: every holder in the registry has a defined, non-empty chain, and each
\* of the four lookup operations of an issued translator returns a text,
\* whatever the arguments.
C10_ChainNeverEmpty ==
    /\ \A k \in 1..Len(_domain_translations) :
           LET self == heap[_domain_translations[k].obj] IN
           /\ self.translations # Unset
           /\ Len(self.translations) >= 1
           /\ \A method \in Methods : \A args \in Args(method) :
                  Invoke(self, method, args) # AttributeError
    /\ \A f \in issued : \E k \in 1..Len(_domain_translations) :
           _domain_translations[k].obj = f.self
    /\ ret.op = "call" => ret.value # AttributeError

\* two domains registered under a preference that finds no catalog for one
C10_Witness ==
    /\ ret.op = "call"
    /\ Len(_domain_translations) = 2
    /\ ~CatalogInstalled(_languages, Holder(ret.fn).domain)
    /\ _languages # <<tag_C>>

\* C11: the registry only grows: every step keeps each entry with its holder,
\* only a domain_translator call for a domain not yet registered adds an
\* entry, and the function such a call returns is bound to the one holder
\* the registry has for the domain.
C11_RegistryOnlyGrows ==
    [][ /\ Len(_domain_translations') >= Len(_domain_translations)
        /\ \A k \in 1..Len(_domain_translations) :
               /\ _domain_translations'[k] = _domain_translations[k]
               /\ heap'[_domain_translations[k].obj].domain = _domain_translations[k].domain
        /\ Len(_domain_translations') =
               Len(_domain_translations) +
               (IF /\ ret'.op = "domain_translator" /\ ~ret'.raised
                   /\ ~Registered(_domain_translations, ret'.domain)
                THEN 1 ELSE 0)
        /\ (ret'.op = "domain_translator" /\ ~ret'.raised) =>
               /\ Registered(_domain_translations', ret'.domain)
               /\ ret'.value.method \in Methods
               /\ \A k \in 1..Len(_domain_translations') :
                      _domain_translations'[k].domain = ret'.domain =>
                          ret'.value.self = _domain_translations'[k].obj
      ]_vars

\* both domains are registered, the preference has been changed, and a
\* further domain_translator call for the first domain, with plural and
\* context, returns a method of the holder created first
C11_Witness ==
    /\ ret.op = "domain_translator" /\ ~ret.raised
    /\ ret.domain = D1
    /\ ret.value = [self |-> 1, method |-> "npgettext"]
    /\ _domain_translations = <<[domain |-> D1, obj |-> 1], [domain |-> D2, obj |-> 2]>>
    /\ Len(heap) = 2
    /\ _languages = <<tag_de, tag_C>>

\* C12: a lookup that falls into a rebuild sees the complete old chain or the
\* complete new chain: what it returns is what the chain the holder had when
\* set_languages was entered returns, or what the chain built from the new
\* preference returns.
C12_AtomicRebuild ==
    [][ (ret'.op = "call" /\ ret' # ret /\ rebuild.running) =>
            LET self == heap[ret'.fn.self]
                old == rebuild.before[ret'.fn.self]
                new == NewDomainTranslations(self.domain, _languages, installed).object
            IN ret'.value \in {Invoke(old, ret'.fn.method, ret'.args),
                               Invoke(new, ret'.fn.method, ret'.args)}
      ]_vars

\* C13: a locale package that cannot be imported and a catalog file that does
\* not exist are not errors: set_languages and domain_translator do not raise,
\* whatever the tags, and for the preference they ran with the locator returns
\* installed files of the domain only, nothing for a variant without one, and
\* the catalog of every variant that has one, also behind variants and tags
\* that have none.
C13_MissingIsNotAnError ==
    ret.op \in {"set_languages", "domain_translator"} =>
        /\ ~ret.raised
        /\ \A domain \in Domains :
               LET catalogs == Found[installed][domain][_languages] IN
               /\ \A i \in 1..Len(catalogs) :
                      catalogs[i] # None =>
                          /\ catalogs[i] \in installed
                          /\ \E t \in 1..Len(_languages) :
                                 \E v \in 1..Len(Expanded[_languages[t]]) :
                                     catalogs[i] \in Visible(Expanded[_languages[t]][v], domain)
               /\ \A t \in 1..Len(_languages) :
                      \A v \in 1..Len(Expanded[_languages[t]]) :
                          \A f \in Visible(Expanded[_languages[t]][v], domain) :
                              In(f, catalogs)

\* domain_translator succeeds under a preference whose first tag has no
\* catalog of the domain and whose second tag has none for its first variant
C13_Witness ==
    /\ ret.op = "domain_translator" /\ ~ret.raised
    /\ ret.domain = D1
    /\ _languages = <<tag_en, tag_de_AT_UTF8, tag_C>>
    /\ ~\E f \in installed : f.domain = D1 /\ f.spec \in {tag_en, tag_de_AT_UTF8}
    /\ heap[ret.value.self].translations =
           <<GNUTranslations(austrian), GNUTranslations(german), NullTranslations>>

\* the locator returns a file of the domain that cannot be loaded
TriesCorrupt(languages, domain) ==
    LET catalogs == Found[installed][domain][languages] IN
    \E i \in 1..Len(catalogs) : catalogs[i] # None /\ ~catalogs[i].valid

\* C14: a catalog file that is present but corrupt is a load failure, not a
\* missing file: a set_languages call raises exactly when the list of some
\* registered domain holds a corrupt file, a domain_translator call for a
\* domain not yet registered raises exactly when the domain's list holds one;
\* a variant without a file never makes a call raise.
C14_CorruptIsLoadFailure ==
    [][ /\ ret'.op = "set_languages" =>
               (ret'.raised <=>
                    \E k \in 1..Len(_domain_translations) :
                        TriesCorrupt(_languages', _domain_translations[k].domain))
        /\ (ret'.op = "domain_translator" /\ ~Registered(_domain_translations, ret'.domain)) =>
               (ret'.raised <=> TriesCorrupt(_languages, ret'.domain))
      ]_vars

\* set_languages("de_AT.UTF-8") has raised at the corrupt German catalog
\* after loading the Austrian one
C14_Witness ==
    /\ ret.op = "set_languages" /\ ret.raised
    /\ installed = DamagedCatalogs
    /\ _languages = <<tag_de_AT_UTF8, tag_C>>
    /\ Registered(_domain_translations, D1)
    /\ heap[Lookup(_domain_translations, D1)].translations = <<GNUTranslations(austrian)>>

\* the forms under which a catalog maps a message id for a single message
SingularForms(f, msgid) ==
    {form \in {-1, plural(f, 1)} : Key(msgid, form) \in _catalog(f)}

\* the texts the catalog files of the chain have for a message id
TextsFor(chain, msgid) ==
    {tmsg(chain[i].catalog, Key(msgid, form)) :
        <<i, form>> \in {x \in (1..Len(chain)) \X {-1, 0, 1} :
                            /\ chain[x[1]].class = "GNUTranslations"
                            /\ Key(msgid, x[2]) \in _catalog(chain[x[1]].catalog)}}

\* C15: context isolation: pgettext(c, m) returns the text the first entry of
\* the chain with a mapping keyed by (c, m) has for that key, and m itself
\* when no entry has one; it never returns a text that an entry has for m
\* without context or for m under another context.
C15_ContextIsolation ==
    IsCall("pgettext") =>
        LET chain == Holder(ret.fn).translations
            c == ret.args.context
            m == ret.args.message
            keyed == {i \in 1..Len(chain) :
                         /\ chain[i].class = "GNUTranslations"
                         /\ SingularForms(chain[i].catalog, CONTEXT(c, m)) # {}}
        IN /\ IF keyed = {} THEN ret.value = m
              ELSE \E i \in keyed :
                       /\ \A j \in keyed : i <= j
                       /\ \E form \in SingularForms(chain[i].catalog, CONTEXT(c, m)) :
                              ret.value = tmsg(chain[i].catalog, Key(CONTEXT(c, m), form))
           /\ ret.value \notin TextsFor(chain, Plain(m))
           /\ \A other \in Contexts \ {c} :
                  ret.value \notin TextsFor(chain, CONTEXT(other, m))

\* pgettext("toolbar", "Open") on a chain whose catalogs have "Open" without
\* context and under "menu" only: the message comes back
C15_Witness ==
    /\ IsCall("pgettext")
    /\ ret.args = [context |-> "toolbar", message |-> msg_open]
    /\ Holder(ret.fn).translations = <<GNUTranslations(german), NullTranslations>>
    /\ TextsFor(Holder(ret.fn).translations, Plain(msg_open)) # {}
    /\ TextsFor(Holder(ret.fn).translations, CONTEXT("menu", msg_open)) # {}
    /\ ret.value = msg_open

\* what one tag of the preference adds to the locator's list
Contribution(tag, domain) == _find_catalogs(<<tag>>, domain, installed)

\* the variants of a tag for which a catalog of the domain is installed
WithCatalog(tag, domain) ==
    {v \in 1..Len(Expanded[tag]) : Visible(Expanded[tag][v], domain) # {}}

\* C16, as the spec has it: each tag of the preference adds at most one
\* catalog to the locator's list; the variants behind the first one found
\* are not searched.
C16_AtMostOnePerTag ==
    ret.op = "set_languages" =>
        \A domain \in Domains : \A i \in 1..Len(_languages) :
            Len(Contribution(_languages[i], domain)) <= 1

\* C16, amended: each tag other than "C" adds one catalog for every variant
\* of its expansion that has a catalog of the domain installed, not only for
\* the first such variant, and never two for one variant; the variants
\* behind a catalog found are searched as well.
C16_OnePerVariant ==
    ret.op = "set_languages" =>
        \A domain \in Domains : \A i \in 1..Len(_languages) :
            LET tag == _languages[i]
                part == Contribution(tag, domain)
            IN tag # tag_C =>
                   /\ Len(part) = Cardinality(WithCatalog(tag, domain))
                   /\ \A a \in 1..Len(part) :
                          /\ part[a] # None
                          /\ \E v \in WithCatalog(tag, domain) :
                                 part[a] \in Visible(Expanded[tag][v], domain)
                          /\ \A b \in 1..Len(part) : part[a].spec = part[b].spec => a = b

\* set_languages("de_AT.UTF-8") with the catalogs de_AT and de of D1
\* installed: the tag adds both
C16_Witness ==
    /\ ret.op = "set_languages"
    /\ _languages = <<tag_de_AT_UTF8, tag_C>>
    /\ {german, austrian} \subseteq installed
    /\ Contribution(tag_de_AT_UTF8, D1) = <<austrian, german>>
    /\ Found[installed][D1][_languages] = <<austrian, german, None>>

\* how specific a locale specification is: a territory counts more than an
\* encoding
Rank(spec) ==
    (IF Find(spec, "_") > 0 THEN 2 ELSE 0) + (IF Find(spec, ".") > 0 THEN 1 ELSE 0)

\* the language of a locale specification: what stands before "_" and "."
LanguageOf(spec) ==
    LET ends == {Find(spec, "_"), Find(spec, ".")} \ {0} IN
    IF ends = {} THEN spec
    ELSE SubSeq(spec, 1, (CHOOSE e \in ends : \A d \in ends : e <= d) - 1)

\* what is found for a locale specification: None for "C", the catalog that
\* the first root with one holds, nothing without one
Yield(spec, domain) ==
    IF spec = tag_C THEN <<None>>
    ELSE IF Visible(spec, domain) = {} THEN <<>>
    ELSE <<CHOOSE f \in Visible(spec, domain) : TRUE>>

\* what is found from variant v of tag i on, in the order of the search: the
\* tags in preference order, all variants of one tag before the next tag
RECURSIVE Tried(_, _, _, _)
Tried(languages, domain, i, v) ==
    IF i > Len(languages) THEN <<>>
    ELSE IF v > Len(Expanded[languages[i]]) THEN Tried(languages, domain, i + 1, 1)
    ELSE Yield(Expanded[languages[i]][v], domain) \o Tried(languages, domain, i, v + 1)

\* C17: search order: the variants of a tag go from most to least specific
\* (the full locale first, the bare language last, without encoding before
\* without territory), and the list the locator returns holds what is found
\* in the order tag by tag in preference order, all variants of one tag
\* before any variant of the next.
C17_SearchOrder ==
    ret.op = "set_languages" =>
        /\ \A i \in 1..Len(_languages) :
               LET specs == Expanded[_languages[i]] IN
               /\ specs[1] = normalize(_languages[i])
               /\ specs[Len(specs)] = LanguageOf(_languages[i])
               /\ \A v, w \in 1..Len(specs) :
                      /\ LanguageOf(specs[v]) = LanguageOf(_languages[i])
                      /\ v < w => Rank(specs[v]) > Rank(specs[w])
        /\ \A domain \in Domains :
               Found[installed][domain][_languages] = Tried(_languages, domain, 1, 1)

\* set_languages("de_AT.UTF-8", "de"): four variants of the first tag, the
\* second and the fourth with a catalog, then the variants of the second tag
C17_Witness ==
    /\ ret.op = "set_languages"
    /\ _languages = <<tag_de_AT_UTF8, tag_de, tag_C>>
    /\ _expand_lang(tag_de_AT_UTF8) =
           <<tag_de_AT_UTF8, tag_de_AT, tag_de \o <<".", "U", "T", "F", "-", "8">>, tag_de>>
    /\ Found[installed][D1][_languages] = <<austrian, german, german, None>>

\* the place of a root in the order of the roots
RootIndex(r) == CHOOSE i \in 1..Len(RootOrder) : RootOrder[i] = r

\* the files of the domain for a locale specification, under all roots
Under(spec, domain) == {f \in installed : f.spec = spec /\ f.domain = domain}

\* C18: multi-root search: for every variant of every tag of the preference
\* the locator records nothing when the domain's file is under none of the
\* roots, and otherwise exactly one file, the one under the first root (in
\* root order) that has it, also when that is not the first root of the
\* variant's directory; the files under later roots are not in its list.
C18_MultiRoot ==
    ret.op = "set_languages" =>
        \A domain \in Domains : \A i \in 1..Len(_languages) :
            \A v \in 1..Len(Expanded[_languages[i]]) :
                LET spec == Expanded[_languages[i]][v]
                    got == Probe(spec, domain, installed)
                    catalogs == Found[installed][domain][_languages]
                IN IF Under(spec, domain) = {} THEN got = <<>>
                   ELSE /\ Len(got) = 1
                        /\ got[1] \in Under(spec, domain)
                        /\ \A f \in Under(spec, domain) :
                               /\ RootIndex(got[1].root) <= RootIndex(f.root)
                               /\ In(f, catalogs) <=> f = got[1]

\* set_languages("de"): the German catalog of D2 is under the second root
\* only, that of D1 is under both roots
C18_Witness ==
    /\ ret.op = "set_languages"
    /\ _languages = <<tag_de, tag_C>>
    /\ Under(tag_de, D2) = {File(tag_de, 2, D2)}
    /\ Under(tag_de, D1) = {File(tag_de, 1, D1), File(tag_de, 2, D1)}
    /\ lc_messages(tag_de, installed) = <<1, 2>>
    /\ Found[installed][D2][_languages] = <<File(tag_de, 2, D2), None>>
    /\ Found[installed][D1][_languages] = <<File(tag_de, 1, D1), None>>

\* C19: a domain_translator call for a domain not yet registered whose chain
\* cannot be built raises and leaves the registry, the objects and the
\* caller's function as they were: the domain is not registered and no
\* half-built holder is stored.  Every call for a domain not yet registered,
\* also one after a failed call, builds from the preference then current: it
\* registers a holder with the complete chain when all catalogs load.
C19_FailedBuildLeavesRegistry ==
    [][ (ret'.op = "domain_translator" /\ ~Registered(_domain_translations, ret'.domain)) =>
            LET domain == ret'.domain
                catalogs == Found[installed][domain][_languages]
            IN IF TriesCorrupt(_languages, domain)
               THEN /\ ret'.raised
                    /\ _domain_translations' = _domain_translations
                    /\ heap' = heap
                    /\ issued' = issued
                    /\ ~Registered(_domain_translations', domain)
               ELSE /\ ~ret'.raised
                    /\ Registered(_domain_translations', domain)
                    /\ Len(_domain_translations') = Len(_domain_translations) + 1
                    /\ LET chain == heap'[Lookup(_domain_translations', domain)].translations
                       IN /\ Len(chain) = Len(catalogs)
                          /\ \A i \in 1..Len(chain) : chain[i].catalog = catalogs[i]
      ]_vars

\* domain_translator for D1 has failed behind the Austrian catalog, with D2
\* registered before: the registry holds D2 alone
C19_Witness ==
    /\ ret.op = "domain_translator" /\ ret.raised
    /\ ret.domain = D1
    /\ _languages = <<tag_de_AT_UTF8, tag_C>>
    /\ Found[installed][D1][_languages] = <<austrian, Corrupt(tag_de, 1, D1), None>>
    /\ _domain_translations = <<[domain |-> D2, obj |-> 1]>>
    /\ Len(heap) = 1

====
